---- MODULE Spec2Model ----
(***************************************************************************)
(* SmarParkingApp: the parking-data fetch, the feature validation, the     *)
(* search/toggle filter and the render of the map screen.                  *)
(*                                                                         *)
(* The repository holds two forms of the screen:                           *)
(*   "App"      src/App.tsx (and the copies part_000 .. part_003): the      *)
(*              fetch handler stores data.features as received;            *)
(*   "part_004" src/unnamed/part_004: the fetch handler keeps only the     *)
(*              features whose geometry.coordinates[0] is non-empty.       *)
(* The variable  variant  says which of the two is running.                *)
(*                                                                         *)
(* src/geoLocation.tsx holds two more components, each with its own        *)
(* specification: the hook useGeoLocation (SpecHook; SpecStart runs it     *)
(* beside the screen's two mount effects) and the relay server's           *)
(* GET /proxy handler (SpecRelay).  SpecDetail is the screen of App.tsx   *)
(* with its detail modal, SpecDistance the function calculateDistance in  *)
(* fixed-point arithmetic.                                                 *)
(***************************************************************************)
EXTENDS Integers, Sequences, FiniteSets, TLC

(* ------------------------------------------------------------------ *)
(* Bounds of the model                                                *)
(* ------------------------------------------------------------------ *)

\* longest features array of a response
MaxFeatures == 2

\* most calls of refreshLocation in a run
MaxRefreshCalls == 2

\* most GET /proxy requests in a run
MaxRequests == 2

(* ------------------------------------------------------------------ *)
(* Strings: sequences of characters                                   *)
(* ------------------------------------------------------------------ *)

\* the character U+00DF (LATIN SMALL LETTER SHARP S), written as a token
SharpS == "sz"

\* String.prototype.toLowerCase on one character of the model's alphabet:
\* upper-case letters map to their lower-case letter, everything else
\* (lower-case letters, the space, U+00DF) maps to itself.
ToLowerChar(c) ==
  CASE c = "L" -> "l"
    [] c = "A" -> "a"
    [] c = "S" -> "s"
    [] c = "P" -> "p"
    [] c = "O" -> "o"
    [] c = "T" -> "t"
    [] OTHER -> c

\* String.prototype.toLowerCase
toLowerCase(s) == [i \in 1..Len(s) |-> ToLowerChar(s[i])]

\* whether needle occurs in hay at 0-based position k
MatchesAt(hay, needle, k) ==
  /\ k + Len(needle) <= Len(hay)
  /\ \A j \in 1..Len(needle) : hay[k + j] = needle[j]

\* the scan of String.prototype.includes: the first position from k on
\* where needle occurs, tried left to right
RECURSIVE IncludesFrom(_, _, _)
IncludesFrom(hay, needle, k) ==
  IF k + Len(needle) > Len(hay) THEN FALSE
  ELSE IF MatchesAt(hay, needle, k) THEN TRUE
  ELSE IncludesFrom(hay, needle, k + 1)

\* a substring test that finds no occurrence of the empty string
includesNonEmpty(hay, needle) == Len(needle) > 0 /\ IncludesFrom(hay, needle, 0)

\* String.prototype.includes
includes(hay, needle) == IncludesFrom(hay, needle, 0)

(* ------------------------------------------------------------------ *)
(* Values: null, geometry, features, responses                        *)
(* ------------------------------------------------------------------ *)

\* null / a present value, as a sequence of length 0 / 1
Null == <<>>
Some(x) == <<x>>

\* A geometry value as the handler and the render read it:
\*   present         feature.geometry is an object
\*   hasCoordinates  feature.geometry.coordinates is an array
\*   coordinates     the rings, each a sequence of <<lng, lat>> points
Geometry(present, hasCoordinates, coordinates) ==
  [present |-> present, hasCoordinates |-> hasCoordinates, coordinates |-> coordinates]

\* points in hundredths of a degree
RingA == << <<2490, 6010>>, <<2491, 6010>>, <<2491, 6011>> >>
RingB == << <<2500, 6020>> >>

GeomAbsent      == Geometry(FALSE, FALSE, <<>>)         \* no geometry
GeomNoCoords    == Geometry(TRUE, FALSE, <<>>)          \* geometry: {}
GeomNoRings     == Geometry(TRUE, TRUE, <<>>)           \* coordinates: []
GeomEmptyRing   == Geometry(TRUE, TRUE, << <<>> >>)     \* coordinates: [[]]
GeomRingA       == Geometry(TRUE, TRUE, << RingA >>)
GeomRingB       == Geometry(TRUE, TRUE, << RingB >>)

\* interface ParkingFeature
ParkingFeature(name, tyyppi, sahkoauto, inva, geometry) ==
  [properties |-> [name |-> name, tyyppi |-> tyyppi, status |-> "open",
                   autopaikk |-> 10, sahkoauto |-> sahkoauto, inva |-> inva],
   geometry |-> geometry]

LotA == ParkingFeature(<<"L", "o", "t", " ", "A">>, <<"P">>, TRUE, FALSE, GeomRingA)

\* features with a non-empty first ring
WellFormedFeatures ==
  { LotA,
    ParkingFeature(<<"a", SharpS>>, <<"S">>, FALSE, TRUE, GeomRingB),
    ParkingFeature(<<"s">>, <<"A", "s">>, TRUE, TRUE, GeomRingB) }

\* features without one
MalformedFeatures ==
  { [LotA EXCEPT !.geometry = g] :
      g \in {GeomAbsent, GeomNoCoords, GeomNoRings, GeomEmptyRing} }

Features == WellFormedFeatures \cup MalformedFeatures

RECURSIVE SeqsUpTo(_, _)
SeqsUpTo(S, n) ==
  IF n = 0 THEN { <<>> }
  ELSE LET shorter == SeqsUpTo(S, n - 1)
       IN  shorter \cup { Append(s, x) : s \in { t \in shorter : Len(t) = n - 1 }, x \in S }

\* What the two awaits of fetchParkingData can deliver:
\*   fetch_rejected   fetch() rejects (network failure)
\*   json_rejected    response.json() rejects (body is not JSON)
\*   null             the body decodes to null
\*   relay_error      the relay's {error: message} body
\*   no_features      another object without a features key
\*   features_null    an object whose features key holds null
\*   features_array   an object whose features key holds an array
Response(kind, features) == [kind |-> kind, features |-> features]

NoResponse == Response("none", <<>>)

Responses ==
  { Response(k, <<>>) :
      k \in {"fetch_rejected", "json_rejected", "null", "relay_error",
             "no_features", "features_null"} }
  \cup { Response("features_array", fs) : fs \in SeqsUpTo(Features, MaxFeatures) }

\* the awaits resolved and data is a decoded JSON value
Decoded(data) == data.kind \notin {"none", "fetch_rejected", "json_rejected"}

\* the truth value of  data  in  if (data && ...)
DataTruthy(data) == Decoded(data) /\ data.kind # "null"

\* the decoded object has a features key
HasFeaturesKey(data) == data.kind \in {"features_null", "features_array"}

\* a handler that tests data.features.length instead of data.features
FeaturesNonEmpty(data) == data.kind = "features_array" /\ Len(data.features) > 0

\* the truth value of  data.features  : undefined and null are falsy, every
\* array (the empty one too) is truthy
FeaturesTruthy(data) == data.kind = "features_array"

(* ------------------------------------------------------------------ *)
(* The fetch completion handler                                       *)
(* ------------------------------------------------------------------ *)

\* part_004 line 56:  feature.geometry?.coordinates?.[0]?.length > 0
\* (an absent link of the chain gives undefined, and undefined > 0 is false)
hasValidCoordinates(feature) ==
  /\ feature.geometry.present
  /\ feature.geometry.hasCoordinates
  /\ Len(feature.geometry.coordinates) >= 1
  /\ Len(feature.geometry.coordinates[1]) > 0

\* Array.prototype.filter with the callback of part_004 lines 55-62:
\* the elements from index i on that pass, appended in index order
RECURSIVE ValidFrom(_, _)
ValidFrom(features, i) ==
  IF i > Len(features) THEN <<>>
  ELSE IF hasValidCoordinates(features[i])
       THEN <<features[i]>> \o ValidFrom(features, i + 1)
       ELSE ValidFrom(features, i + 1)

validFeatures(features) == ValidFrom(features, 1)

\* a handler that drops a feature equal to one already kept
RECURSIVE DedupFrom(_, _, _)
DedupFrom(features, i, kept) ==
  IF i > Len(features) THEN kept
  ELSE IF \E j \in DOMAIN kept : kept[j] = features[i]
       THEN DedupFrom(features, i + 1, kept)
       ELSE DedupFrom(features, i + 1, Append(kept, features[i]))

StoredFeaturesDeduplicated(v, data) ==
  IF v = "App" THEN DedupFrom(data.features, 1, <<>>)
  ELSE DedupFrom(validFeatures(data.features), 1, <<>>)

\* the argument of setParkingData for a response with a truthy features value
StoredFeatures(v, data) ==
  IF v = "App" THEN data.features ELSE validFeatures(data.features)

AlertPermissionDenied == "Location access is required to use this app."
AlertLocationFailed   == "Failed to get location."
AlertInvalidFormat    == "Invalid data format received from the server."
AlertFetchFailed      == "Failed to fetch parking data."
AlertFetchFailed004   == "Failed to fetch parking data. Please check your connection and try again."

FetchAlerts == {AlertInvalidFormat, AlertFetchFailed, AlertFetchFailed004}

\* a handler that logs a failure and raises no alert
FetchOutcomeSilent(v, data) ==
  IF Decoded(data) /\ DataTruthy(data) /\ FeaturesTruthy(data)
  THEN [stored |-> Some(StoredFeatures(v, data)), alert |-> Null]
  ELSE [stored |-> Null, alert |-> Null]

\* fetchParkingData from the first await on: what it stores (Null: no call
\* of setParkingData) and the alert it raises (Null: none).
\*   App.tsx 92-104: a rejected await goes to the catch; a falsy data or
\*     data.features goes to the else branch.
\*   part_004 41-75: a rejected await goes to the catch; data.type on null
\*     throws; a falsy data.features throws in the else branch; all three end
\*     in the one catch.
FetchOutcome(v, data) ==
  IF v = "App"
  THEN IF ~Decoded(data)
       THEN [stored |-> Null, alert |-> Some(AlertFetchFailed)]
       ELSE IF DataTruthy(data) /\ FeaturesTruthy(data)
            THEN [stored |-> Some(StoredFeatures(v, data)), alert |-> Null]
            ELSE [stored |-> Null, alert |-> Some(AlertInvalidFormat)]
  ELSE IF ~Decoded(data) \/ ~DataTruthy(data)
       THEN [stored |-> Null, alert |-> Some(AlertFetchFailed004)]
       ELSE IF DataTruthy(data) /\ FeaturesTruthy(data)
            THEN [stored |-> Some(StoredFeatures(v, data)), alert |-> Null]
            ELSE [stored |-> Null, alert |-> Some(AlertFetchFailed004)]

(* ------------------------------------------------------------------ *)
(* The filter                                                         *)
(* ------------------------------------------------------------------ *)

\* a callback that matches the search term against the name alone
FilterCallbackNameOnly(record, term, flt) ==
  /\ (~flt.electric \/ record.properties.sahkoauto)
  /\ (~flt.disability \/ record.properties.inva)
  /\ includes(toLowerCase(record.properties.name), toLowerCase(term))

\* a callback that does not read the disability switch
FilterCallbackNoDisability(record, term, flt) ==
  /\ (~flt.electric \/ record.properties.sahkoauto)
  /\ \/ includes(toLowerCase(record.properties.name), toLowerCase(term))
     \/ includes(toLowerCase(record.properties.tyyppi), toLowerCase(term))

\* a callback that lower-cases the fields but not the search term
FilterCallbackTermAsTyped(record, term, flt) ==
  /\ (~flt.electric \/ record.properties.sahkoauto)
  /\ (~flt.disability \/ record.properties.inva)
  /\ \/ includes(toLowerCase(record.properties.name), term)
     \/ includes(toLowerCase(record.properties.tyyppi), term)

\* the callback of parkingData.filter (App.tsx 111-119)
FilterCallback(record, term, flt) ==
  LET sahkoauto == record.properties.sahkoauto
      inva      == record.properties.inva
      name      == record.properties.name
      tyyppi    == record.properties.tyyppi
  IN  /\ (~flt.electric \/ sahkoauto)
      /\ (~flt.disability \/ inva)
      /\ \/ includes(toLowerCase(name), toLowerCase(term))
         \/ includes(toLowerCase(tyyppi), toLowerCase(term))

\* Array.prototype.filter: the elements from index i on that pass, in order
RECURSIVE FilterFrom(_, _, _, _)
FilterFrom(data, term, flt, i) ==
  IF i > Len(data) THEN <<>>
  ELSE IF FilterCallback(data[i], term, flt)
       THEN <<data[i]>> \o FilterFrom(data, term, flt, i + 1)
       ELSE FilterFrom(data, term, flt, i + 1)

\* a filter that collects the passing elements in reverse order
RECURSIVE FilterReversedFrom(_, _, _, _)
FilterReversedFrom(data, term, flt, i) ==
  IF i > Len(data) THEN <<>>
  ELSE IF FilterCallback(data[i], term, flt)
       THEN FilterReversedFrom(data, term, flt, i + 1) \o <<data[i]>>
       ELSE FilterReversedFrom(data, term, flt, i + 1)

FilterParkingDataReversed(data, term, flt) == FilterReversedFrom(data, term, flt, 1)

\* a filter whose loop starts one element late
FilterParkingDataSkipFirst(data, term, flt) == FilterFrom(data, term, flt, 2)

\* const filteredParkingData = parkingData.filter(...)
FilterParkingData(data, term, flt) == FilterFrom(data, term, flt, 1)

(* ------------------------------------------------------------------ *)
(* The render                                                         *)
(* ------------------------------------------------------------------ *)

\* feature.geometry.coordinates[0] in the polygon loop throws a TypeError
\* when geometry or geometry.coordinates is undefined; an absent first ring
\* is not an array and is skipped; an empty ring maps to an empty polygon.
PolygonThrows(feature) ==
  \/ ~feature.geometry.present
  \/ ~feature.geometry.hasCoordinates

\* const [lng, lat] = feature.geometry.coordinates[0][0] in the marker loop
\* throws when any link is undefined: no geometry, no coordinates, no first
\* ring, or an empty first ring (destructuring undefined).
MarkerThrows(feature) ==
  \/ ~feature.geometry.present
  \/ ~feature.geometry.hasCoordinates
  \/ Len(feature.geometry.coordinates) = 0
  \/ Len(feature.geometry.coordinates[1]) = 0

\* One render of the component: the loading view while currentLocation is
\* null, else the map; an exception thrown while rendering takes the screen
\* down.
RenderView(data, location, filtered) ==
  IF location = Null THEN "loading"
  ELSE IF \/ \E i \in DOMAIN data : PolygonThrows(data[i])
          \/ \E i \in DOMAIN filtered : MarkerThrows(filtered[i])
       THEN "crashed"
       ELSE "map"

(* ------------------------------------------------------------------ *)
(* calculateDistance (App.tsx 51-61)                                  *)
(* ------------------------------------------------------------------ *)

\* Numbers other than coordinates are fixed-point with four decimals (the
\* value times Scale); coordinates are in hundredths of a degree.  Every
\* rounding is to nearest with halves away from zero, which like the
\* rounding of IEEE 754 arithmetic gives -x the negated result of x.
Scale == 10000

\* a / b rounded (b > 0)
RDiv(a, b) == IF a >= 0 THEN (a + b \div 2) \div b ELSE -((b \div 2 - a) \div b)

\* Math.PI
MathPI == 31416

\* (x * Math.PI) / 180 for x in hundredths of a degree
ToRadians(x) == RDiv(x * MathPI, 18000)

\* the number of terms taken of a power series
SeriesTerms == 8

\* term - term*x2/((n+1)(n+2)) + ... : the series of sin and cos from the
\* term of x^n on, x2 being x*x
RECURSIVE TrigSeries(_, _, _, _)
TrigSeries(term, x2, n, left) ==
  IF left = 0 THEN 0
  ELSE term + TrigSeries(-RDiv(RDiv(term * x2, Scale), (n + 1) * (n + 2)), x2, n + 2, left - 1)

\* Math.sin, for arguments between -pi/2 and pi/2
MathSin(x) == TrigSeries(x, RDiv(x * x, Scale), 1, SeriesTerms)

\* Math.cos, for arguments between -pi/2 and pi/2
MathCos(x) == TrigSeries(Scale, RDiv(x * x, Scale), 0, SeriesTerms)

\* the largest r in lo..hi with r*r <= n
RECURSIVE SqrtBetween(_, _, _)
SqrtBetween(n, lo, hi) ==
  IF lo >= hi THEN lo
  ELSE LET mid == (lo + hi + 1) \div 2
       IN  IF mid * mid <= n THEN SqrtBetween(n, mid, hi) ELSE SqrtBetween(n, lo, mid - 1)

\* Math.sqrt of a number with eight decimals (n = value * Scale * Scale),
\* with four decimals
MathSqrt(n) == SqrtBetween(n, 0, 2 * Scale)

\* t^n/n - t^(n+2)/(n+2) + ... : the series of atan from the term of t^n on
RECURSIVE AtanSeries(_, _, _, _)
AtanSeries(power, t2, n, left) ==
  IF left = 0 THEN 0
  ELSE RDiv(power, n) + AtanSeries(-RDiv(power * t2, Scale), t2, n + 2, left - 1)

\* atan of t in 0..1, by atan t = 2 atan(t / (1 + sqrt(1 + t*t)))
Atan(t) ==
  LET u == RDiv(t * Scale, Scale + MathSqrt(Scale * Scale + t * t))
  IN  2 * AtanSeries(u, RDiv(u * u, Scale), 1, SeriesTerms)

\* Math.atan2(y, x) for y >= 0 and x >= 0, not both zero
MathAtan2(y, x) ==
  IF y <= x THEN Atan(RDiv(y * Scale, x))
  ELSE RDiv(MathPI, 2) - Atan(RDiv(x * Scale, y))

\* const R = 6371
EarthRadius == 6371

\* `${distance.toFixed(2)} km`: a string, of the distance rounded to
\* hundredths, then the suffix
ToFixed2Km(distance) ==
  [type |-> "string", hundredths |-> RDiv(distance, Scale \div 100), suffix |-> " km"]

\* `${NaN.toFixed(2)} km`
NaNKm == [type |-> "string", hundredths |-> 0, suffix |-> "NaN km"]

\* a number of kilometres
NumberValue(hundredths) == [type |-> "number", hundredths |-> hundredths, suffix |-> ""]

\* const a = sin(dLat/2)*sin(dLat/2) + cos(lat1)*cos(lat2)*sin(dLon/2)*sin(dLon/2),
\* with eight decimals
HaversineA(lat1, lon1, lat2, lon2) ==
  LET dLat    == ToRadians(lat2 - lat1)
      dLon    == ToRadians(lon2 - lon1)
      sinLat  == MathSin(RDiv(dLat, 2))
      sinLon  == MathSin(RDiv(dLon, 2))
      cosines == RDiv(MathCos(ToRadians(lat1)) * MathCos(ToRadians(lat2)), Scale)
  IN  sinLat * sinLat + RDiv(cosines * sinLon, Scale) * sinLon

\* the a of a formula that takes the cosine of lat1 twice
HaversineAFirstTwice(lat1, lon1, lat2, lon2) ==
  LET dLat    == ToRadians(lat2 - lat1)
      dLon    == ToRadians(lon2 - lon1)
      sinLat  == MathSin(RDiv(dLat, 2))
      sinLon  == MathSin(RDiv(dLon, 2))
      cosines == RDiv(MathCos(ToRadians(lat1)) * MathCos(ToRadians(lat1)), Scale)
  IN  sinLat * sinLat + RDiv(cosines * sinLon, Scale) * sinLon

\* a function with the cosine of lat1 taken twice
calculateDistanceFirstTwice(lat1, lon1, lat2, lon2) ==
  LET a == HaversineAFirstTwice(lat1, lon1, lat2, lon2)
  IN  IF a > Scale * Scale THEN NaNKm
      ELSE ToFixed2Km(EarthRadius * 2 * MathAtan2(MathSqrt(a), MathSqrt(Scale * Scale - a)))

\* a function with the arguments of atan2 exchanged
calculateDistanceAtan2Exchanged(lat1, lon1, lat2, lon2) ==
  LET a == HaversineA(lat1, lon1, lat2, lon2)
  IN  IF a > Scale * Scale THEN NaNKm
      ELSE ToFixed2Km(EarthRadius * 2 * MathAtan2(MathSqrt(Scale * Scale - a), MathSqrt(a)))

\* c = 2 * atan2(sqrt(a), sqrt(1 - a)); distance = R * c; the square root of
\* a negative 1 - a is NaN
calculateDistance(lat1, lon1, lat2, lon2) ==
  LET a == HaversineA(lat1, lon1, lat2, lon2)
  IN  IF a > Scale * Scale THEN NaNKm
      ELSE ToFixed2Km(EarthRadius * 2 * MathAtan2(MathSqrt(a), MathSqrt(Scale * Scale - a)))

\* the points given to calculateDistance: [latitude, longitude] in
\* hundredths of a degree
DistancePoints ==
  { <<6017, 2494>>, <<6010, 2490>>, <<6020, 2500>>, <<6021, 2466>>,
    <<6501, 2547>>, <<5933, 1807>>, <<0, 0>>, <<4071, -7401>>,
    <<-3387, 15121>>, <<-3387, 2494>> }

(* ------------------------------------------------------------------ *)
(* Values of the hook useGeoLocation (geoLocation.tsx 1-68)           *)
(* ------------------------------------------------------------------ *)

\* { lat: 60.1699, lng: 24.9384 }, in ten-thousandths of a degree
Helsinki == [lat |-> 601699, lng |-> 249384]

ErrorPermissionDenied == "Permission to access location was denied"
ErrorGettingLocation  == "Error getting location"
ErrorRefreshing       == "Error refreshing location"

\* interface LocationState of the hook; error is Null when the key is absent
HookLocation(loaded, coordinates, error) ==
  [loaded |-> loaded, coordinates |-> coordinates, error |-> error]

\* the argument of useState
InitialLocation == HookLocation(FALSE, Helsinki, Null)

\* the coords getCurrentPositionAsync delivers to the hook, in
\* ten-thousandths of a degree
HookPositions ==
  { [latitude |-> 601710, longitude |-> 249400],
    [latitude |-> 614981, longitude |-> 237610] }

(* ------------------------------------------------------------------ *)
(* State                                                              *)
(* ------------------------------------------------------------------ *)

VARIABLES
  variant,              \* which form of the screen runs
  locPc,                \* getLocation: "start", "awaitPermission", "awaitPosition", "done"
  fetchPc,              \* fetchParkingData: "start", "inflight", "done"
  response,             \* what the fetch delivered (NoResponse before)
  parkingData,          \* useState<ParkingFeature[]>([])
  currentLocation,      \* useState<LocationState | null>(null)
  searchTerm,           \* useState("")
  filters,              \* useState({electric: false, disability: false})
  alerts,               \* the messages given to Alert.alert so far
  view,                 \* what the last render returned
  filteredParkingData,  \* the filter's output in the last render
  issued,               \* how many requests the screen has issued, by kind
  \* the hook useGeoLocation
  hookPc,               \* its mount effect: "start", "awaitPermission", "awaitPosition", "done"
  osPermission,         \* the platform's foreground permission
  location,             \* useState<LocationState>({loaded, coordinates, error?})
  refreshInflight,      \* position queries of refreshLocation not yet settled
  refreshCalls,         \* calls of refreshLocation so far
  hookIssued,           \* how many requests the hook has issued, by kind
  lastStep,             \* how the latest settled step of the hook ended
  lastFix,              \* the coords the latest resolved position query returned
  everFix,              \* some position query of the hook has resolved
  \* the relay
  requests,             \* the GET /proxy requests received, in arrival order
  \* the detail view of App.tsx
  modalVisible,         \* useState(false)
  selectedParking,      \* useState<ParkingFeature | null>(null)
  \* calculateDistance
  distanceCall          \* the latest call: its arguments and what it returned

appVars == << variant, locPc, fetchPc, response, parkingData, currentLocation,
              searchTerm, filters, alerts, view, filteredParkingData, issued >>

hookVars == << hookPc, osPermission, location, refreshInflight, refreshCalls,
               hookIssued, lastStep, lastFix, everFix >>

relayVars == << requests >>

detailVars == << modalVisible, selectedParking >>

distanceVars == << distanceCall >>

vars == << appVars, hookVars, relayVars, detailVars, distanceVars >>

Variants == {"App", "part_004"}

\* the texts the search box receives
SearchTerms ==
  { <<>>, <<"l", "o", "t">>, <<"a">>, <<"S">>, <<SharpS>>, <<"S", "S">>,
    <<"p">>, <<"A", "s">> }

\* the fixes getCurrentPositionAsync delivers, in hundredths of a degree
Positions == { [latitude |-> 6017, longitude |-> 2494] }

\* setCurrentLocation({... latitudeDelta: 0.05, longitudeDelta: 0.05})
LocationState(coords) ==
  [latitude |-> coords.latitude, longitude |-> coords.longitude,
   latitudeDelta |-> 5, longitudeDelta |-> 5]

Init ==
  /\ variant \in Variants
  /\ locPc = "start"
  /\ fetchPc = "start"
  /\ response = NoResponse
  /\ parkingData = <<>>
  /\ currentLocation = Null
  /\ searchTerm = <<>>
  /\ filters = [electric |-> FALSE, disability |-> FALSE]
  /\ alerts = {}
  /\ filteredParkingData = FilterParkingData(<<>>, <<>>, [electric |-> FALSE, disability |-> FALSE])
  /\ view = RenderView(<<>>, Null, <<>>)
  /\ issued = [permission |-> 0, position |-> 0, fetch |-> 0]
  /\ hookPc = "start"
  /\ osPermission = "undetermined"
  /\ location = InitialLocation
  /\ refreshInflight = 0
  /\ refreshCalls = 0
  /\ hookIssued = [permission |-> 0, position |-> 0]
  /\ lastStep = "none"
  /\ lastFix = Null
  /\ everFix = FALSE
  /\ requests = <<>>
  /\ modalVisible = FALSE
  /\ selectedParking = Null
  /\ distanceCall = Null

\* the screen is mounted and has not been taken down by a render exception
Alive == view # "crashed"

\* the re-render that follows a state update
Rerender ==
  /\ filteredParkingData' = FilterParkingData(parkingData', searchTerm', filters')
  /\ view' = RenderView(parkingData', currentLocation',
                        FilterParkingData(parkingData', searchTerm', filters'))

(* ------------------------------------------------------------------ *)
(* getLocation (App.tsx 64-87, part_004 82-105)                       *)
(* ------------------------------------------------------------------ *)

\* the effect calls getLocation, which runs to its first await
GetLocationStart ==
  /\ Alive
  /\ locPc = "start"
  /\ locPc' = "awaitPermission"
  /\ UNCHANGED << variant, fetchPc, response, parkingData, currentLocation,
                  searchTerm, filters, alerts, view, filteredParkingData >>
  /\ issued' = [issued EXCEPT !.permission = @ + 1]
  /\ UNCHANGED << hookVars, relayVars, detailVars, distanceVars >>

\* requestForegroundPermissionsAsync resolves with a status
PermissionResolved(status) ==
  /\ Alive
  /\ locPc = "awaitPermission"
  /\ IF status # "granted"
     THEN /\ alerts' = alerts \cup {AlertPermissionDenied}
          /\ locPc' = "done"
     ELSE /\ alerts' = alerts
          /\ locPc' = "awaitPosition"
  /\ UNCHANGED << variant, fetchPc, response, parkingData, currentLocation,
                  searchTerm, filters, view, filteredParkingData >>
  /\ issued' = [issued EXCEPT !.position = IF status = "granted" THEN @ + 1 ELSE @]
  /\ UNCHANGED << hookVars, relayVars, detailVars, distanceVars >>

\* requestForegroundPermissionsAsync rejects: the catch block
PermissionRejected ==
  /\ Alive
  /\ locPc = "awaitPermission"
  /\ alerts' = alerts \cup {AlertLocationFailed}
  /\ locPc' = "done"
  /\ UNCHANGED << variant, fetchPc, response, parkingData, currentLocation,
                  searchTerm, filters, view, filteredParkingData >>
  /\ UNCHANGED << issued, hookVars, relayVars, detailVars, distanceVars >>

\* a position handler that also resets the feature list
PositionResolvedClearsList(coords) ==
  /\ Alive
  /\ locPc = "awaitPosition"
  /\ currentLocation' = Some(LocationState(coords))
  /\ parkingData' = <<>>
  /\ locPc' = "done"
  /\ UNCHANGED << variant, fetchPc, response, searchTerm, filters, alerts >>
  /\ Rerender
  /\ UNCHANGED << issued, hookVars, relayVars, detailVars, distanceVars >>

\* getCurrentPositionAsync resolves: setCurrentLocation
PositionResolved(coords) ==
  /\ Alive
  /\ locPc = "awaitPosition"
  /\ currentLocation' = Some(LocationState(coords))
  /\ locPc' = "done"
  /\ UNCHANGED << variant, fetchPc, response, parkingData, searchTerm, filters, alerts >>
  /\ Rerender
  /\ UNCHANGED << issued, hookVars, relayVars, detailVars, distanceVars >>

\* getCurrentPositionAsync rejects: the catch block
PositionRejected ==
  /\ Alive
  /\ locPc = "awaitPosition"
  /\ alerts' = alerts \cup {AlertLocationFailed}
  /\ locPc' = "done"
  /\ UNCHANGED << variant, fetchPc, response, parkingData, currentLocation,
                  searchTerm, filters, view, filteredParkingData >>
  /\ UNCHANGED << issued, hookVars, relayVars, detailVars, distanceVars >>

(* ------------------------------------------------------------------ *)
(* fetchParkingData (App.tsx 90-108, part_004 39-79)                  *)
(* ------------------------------------------------------------------ *)

\* the effect calls fetchParkingData, which runs to await fetch(...)
FetchStart ==
  /\ Alive
  /\ fetchPc = "start"
  /\ fetchPc' = "inflight"
  /\ UNCHANGED << variant, locPc, response, parkingData, currentLocation,
                  searchTerm, filters, alerts, view, filteredParkingData >>
  /\ issued' = [issued EXCEPT !.fetch = @ + 1]
  /\ UNCHANGED << hookVars, relayVars, detailVars, distanceVars >>

\* the awaits settle with data and the rest of the handler runs
FetchCompleted(data) ==
  /\ Alive
  /\ fetchPc = "inflight"
  /\ fetchPc' = "done"
  /\ response' = data
  /\ LET out == FetchOutcome(variant, data)
     IN  /\ parkingData' = IF out.stored = Null THEN parkingData ELSE out.stored[1]
         /\ alerts' = IF out.alert = Null THEN alerts ELSE alerts \cup {out.alert[1]}
  /\ UNCHANGED << variant, locPc, currentLocation, searchTerm, filters >>
  /\ Rerender
  /\ UNCHANGED << issued, hookVars, relayVars, detailVars, distanceVars >>

(* ------------------------------------------------------------------ *)
(* The search box and the two switches (rendered in the map view)     *)
(* ------------------------------------------------------------------ *)

\* a search box whose text changes without the list being filtered again
OnChangeTextMemoized(text) ==
  /\ view = "map"
  /\ searchTerm' = text
  /\ UNCHANGED << variant, locPc, fetchPc, response, parkingData, currentLocation,
                  filters, alerts, view, filteredParkingData >>
  /\ UNCHANGED << issued, hookVars, relayVars, detailVars, distanceVars >>

\* TextInput onChangeText={setSearchTerm}
OnChangeText(text) ==
  /\ view = "map"
  /\ searchTerm' = text
  /\ UNCHANGED << variant, locPc, fetchPc, response, parkingData, currentLocation,
                  filters, alerts >>
  /\ Rerender
  /\ UNCHANGED << issued, hookVars, relayVars, detailVars, distanceVars >>

\* Switch onValueChange: setFilters(prev => ({...prev, electric: value}))
OnElectricChange(value) ==
  /\ view = "map"
  /\ filters' = [filters EXCEPT !.electric = value]
  /\ UNCHANGED << variant, locPc, fetchPc, response, parkingData, currentLocation,
                  searchTerm, alerts >>
  /\ Rerender
  /\ UNCHANGED << issued, hookVars, relayVars, detailVars, distanceVars >>

\* Switch onValueChange: setFilters(prev => ({...prev, disability: value}))
OnDisabilityChange(value) ==
  /\ view = "map"
  /\ filters' = [filters EXCEPT !.disability = value]
  /\ UNCHANGED << variant, locPc, fetchPc, response, parkingData, currentLocation,
                  searchTerm, alerts >>
  /\ Rerender
  /\ UNCHANGED << issued, hookVars, relayVars, detailVars, distanceVars >>

(* ------------------------------------------------------------------ *)
(* The detail view of App.tsx (173-176, 218-246)                      *)
(* ------------------------------------------------------------------ *)

\* a marker handler that shows the modal without setting the selection
MarkerPressShowsOnly(i) ==
  /\ view = "map"
  /\ variant = "App"
  /\ i \in DOMAIN filteredParkingData
  /\ modalVisible' = TRUE
  /\ UNCHANGED << selectedParking, appVars, hookVars, relayVars, distanceVars >>

\* a marker handler that also drops the pressed feature from the list
MarkerPressRemoves(i) ==
  /\ view = "map"
  /\ variant = "App"
  /\ i \in DOMAIN filteredParkingData
  /\ selectedParking' = Some(filteredParkingData[i])
  /\ modalVisible' = TRUE
  /\ parkingData' = SelectSeq(parkingData, LAMBDA f : f # filteredParkingData[i])
  /\ UNCHANGED << variant, locPc, fetchPc, response, currentLocation, searchTerm,
                  filters, alerts, issued >>
  /\ Rerender
  /\ UNCHANGED << hookVars, relayVars, distanceVars >>

\* Marker onPress of the i-th marker: setSelectedParking(feature);
\* setModalVisible(true)
MarkerPress(i) ==
  /\ view = "map"
  /\ variant = "App"
  /\ i \in DOMAIN filteredParkingData
  /\ selectedParking' = Some(filteredParkingData[i])
  /\ modalVisible' = TRUE
  /\ UNCHANGED << appVars, hookVars, relayVars, distanceVars >>

\* Modal onRequestClose (the platform's back action): setModalVisible(false)
OnRequestClose ==
  /\ view = "map"
  /\ modalVisible
  /\ modalVisible' = FALSE
  /\ UNCHANGED << selectedParking, appVars, hookVars, relayVars, distanceVars >>

\* the Close button, rendered while selectedParking is set:
\* setModalVisible(false)
ClosePress ==
  /\ view = "map"
  /\ modalVisible
  /\ selectedParking # Null
  /\ modalVisible' = FALSE
  /\ UNCHANGED << selectedParking, appVars, hookVars, relayVars, distanceVars >>

Next ==
  \/ GetLocationStart
  \/ \E status \in {"granted", "denied"} : PermissionResolved(status)
  \/ PermissionRejected
  \/ \E coords \in Positions : PositionResolved(coords)
  \/ PositionRejected
  \/ FetchStart
  \/ \E data \in Responses : FetchCompleted(data)
  \/ \E text \in SearchTerms : OnChangeText(text)
  \/ \E value \in BOOLEAN : OnElectricChange(value)
  \/ \E value \in BOOLEAN : OnDisabilityChange(value)

Spec == Init /\ [][Next]_vars

\* a call of calculateDistance, as the render of the markers and of the
\* modal makes it
CalculateDistance(from, to) ==
  /\ distanceCall' = Some([lat1 |-> from[1], lon1 |-> from[2], lat2 |-> to[1], lon2 |-> to[2],
                           returned |-> calculateDistance(from[1], from[2], to[1], to[2])])
  /\ UNCHANGED << appVars, hookVars, relayVars, detailVars >>

NextDistance == \E from \in DistancePoints, to \in DistancePoints : CalculateDistance(from, to)

\* calculateDistance alone
SpecDistance == Init /\ [][NextDistance]_vars

\* the responses given to the screen with the detail view
DetailResponses ==
  { Response("features_array", <<f, g>>) : f, g \in WellFormedFeatures }
  \cup { Response("features_array", <<>>), Response("relay_error", <<>>) }

NextDetail ==
  \/ GetLocationStart
  \/ \E status \in {"granted", "denied"} : PermissionResolved(status)
  \/ PermissionRejected
  \/ \E coords \in Positions : PositionResolved(coords)
  \/ PositionRejected
  \/ FetchStart
  \/ \E data \in DetailResponses : FetchCompleted(data)
  \/ \E text \in SearchTerms : OnChangeText(text)
  \/ \E value \in BOOLEAN : OnElectricChange(value)
  \/ \E value \in BOOLEAN : OnDisabilityChange(value)
  \/ \E i \in DOMAIN filteredParkingData : MarkerPress(i)
  \/ OnRequestClose
  \/ ClosePress

\* the screen with its detail view
SpecDetail == Init /\ [][NextDetail]_vars

(* ------------------------------------------------------------------ *)
(* The hook useGeoLocation (geoLocation.tsx 10-66)                    *)
(* ------------------------------------------------------------------ *)

\* a setLocation call with latitude and longitude exchanged
LocatedAtSwapped(coords) ==
  HookLocation(TRUE, [lat |-> coords.longitude, lng |-> coords.latitude], Null)

\* setLocation({loaded: true, coordinates: {lat: coords.latitude, lng: coords.longitude}})
LocatedAt(coords) ==
  HookLocation(TRUE, [lat |-> coords.latitude, lng |-> coords.longitude], Null)

\* setLocation({loaded: true, coordinates: {lat: 60.1699, lng: 24.9384}, error})
FallbackWith(error) == HookLocation(TRUE, Helsinki, Some(error))

\* the effect runs the async function to await requestForegroundPermissionsAsync
HookMount ==
  /\ hookPc = "start"
  /\ hookPc' = "awaitPermission"
  /\ hookIssued' = [hookIssued EXCEPT !.permission = @ + 1]
  /\ UNCHANGED << osPermission, location, refreshInflight, refreshCalls,
                  lastStep, lastFix, everFix >>
  /\ UNCHANGED << appVars, relayVars, detailVars, distanceVars >>

\* the permission request resolves: on a denial the fallback with an error,
\* on a grant the call of getCurrentPositionAsync
HookPermissionResolved(status) ==
  /\ hookPc = "awaitPermission"
  /\ osPermission' = status
  /\ IF status # "granted"
     THEN /\ location' = FallbackWith(ErrorPermissionDenied)
          /\ hookPc' = "done"
          /\ lastStep' = "failed"
          /\ hookIssued' = hookIssued
     ELSE /\ location' = location
          /\ hookPc' = "awaitPosition"
          /\ lastStep' = "ok"
          /\ hookIssued' = [hookIssued EXCEPT !.position = @ + 1]
  /\ UNCHANGED << refreshInflight, refreshCalls, lastFix, everFix >>
  /\ UNCHANGED << appVars, relayVars, detailVars, distanceVars >>

\* the permission request rejects: the catch block
HookPermissionRejected ==
  /\ hookPc = "awaitPermission"
  /\ location' = FallbackWith(ErrorGettingLocation)
  /\ hookPc' = "done"
  /\ lastStep' = "failed"
  /\ UNCHANGED << osPermission, refreshInflight, refreshCalls, hookIssued,
                  lastFix, everFix >>
  /\ UNCHANGED << appVars, relayVars, detailVars, distanceVars >>

\* the mount's position query resolves
HookPositionResolved(coords) ==
  /\ hookPc = "awaitPosition"
  /\ location' = LocatedAt(coords)
  /\ hookPc' = "done"
  /\ lastStep' = "ok"
  /\ lastFix' = Some(coords)
  /\ everFix' = TRUE
  /\ UNCHANGED << osPermission, refreshInflight, refreshCalls, hookIssued >>
  /\ UNCHANGED << appVars, relayVars, detailVars, distanceVars >>

\* the mount's position query rejects: the catch block
HookPositionRejected ==
  /\ hookPc = "awaitPosition"
  /\ location' = FallbackWith(ErrorGettingLocation)
  /\ hookPc' = "done"
  /\ lastStep' = "failed"
  /\ UNCHANGED << osPermission, refreshInflight, refreshCalls, hookIssued,
                  lastFix, everFix >>
  /\ UNCHANGED << appVars, relayVars, detailVars, distanceVars >>

\* a caller invokes refreshLocation (returned from the first render on),
\* which runs to await getCurrentPositionAsync
RefreshLocation ==
  /\ hookPc # "start"
  /\ refreshCalls < MaxRefreshCalls
  /\ refreshCalls' = refreshCalls + 1
  /\ refreshInflight' = refreshInflight + 1
  /\ hookIssued' = [hookIssued EXCEPT !.position = @ + 1]
  /\ UNCHANGED << hookPc, osPermission, location, lastStep, lastFix, everFix >>
  /\ UNCHANGED << appVars, relayVars, detailVars, distanceVars >>

\* a success branch of refreshLocation that spreads prev and so keeps an
\* earlier error
RefreshResolvedKeepsError(coords) ==
  /\ refreshInflight > 0
  /\ osPermission = "granted"
  /\ refreshInflight' = refreshInflight - 1
  /\ location' = [LocatedAt(coords) EXCEPT !.error = location.error]
  /\ lastStep' = "ok"
  /\ lastFix' = Some(coords)
  /\ everFix' = TRUE
  /\ UNCHANGED << hookPc, osPermission, refreshCalls, hookIssued >>
  /\ UNCHANGED << appVars, relayVars, detailVars, distanceVars >>

\* a position query of refreshLocation resolves (the platform answers a
\* query only while the permission is granted)
RefreshResolved(coords) ==
  /\ refreshInflight > 0
  /\ osPermission = "granted"
  /\ refreshInflight' = refreshInflight - 1
  /\ location' = LocatedAt(coords)
  /\ lastStep' = "ok"
  /\ lastFix' = Some(coords)
  /\ everFix' = TRUE
  /\ UNCHANGED << hookPc, osPermission, refreshCalls, hookIssued >>
  /\ UNCHANGED << appVars, relayVars, detailVars, distanceVars >>

\* a catch block of refreshLocation copied from the mount effect: it sets
\* the fallback coordinate
RefreshRejectedToFallback ==
  /\ refreshInflight > 0
  /\ refreshInflight' = refreshInflight - 1
  /\ location' = HookLocation(TRUE, Helsinki, Some(ErrorRefreshing))
  /\ lastStep' = "failed"
  /\ UNCHANGED << hookPc, osPermission, refreshCalls, hookIssued, lastFix, everFix >>
  /\ UNCHANGED << appVars, relayVars, detailVars, distanceVars >>

\* a catch block of refreshLocation that issues the query again
RefreshRejectedRetry ==
  /\ refreshInflight > 0
  /\ hookIssued.position <= MaxRefreshCalls + 1
  /\ hookIssued' = [hookIssued EXCEPT !.position = @ + 1]
  /\ location' = [location EXCEPT !.error = Some(ErrorRefreshing)]
  /\ lastStep' = "failed"
  /\ UNCHANGED << hookPc, osPermission, refreshInflight, refreshCalls, lastFix, everFix >>
  /\ UNCHANGED << appVars, relayVars, detailVars, distanceVars >>

\* a position query of refreshLocation rejects:
\* setLocation(prev => ({...prev, error: 'Error refreshing location'}))
RefreshRejected ==
  /\ refreshInflight > 0
  /\ refreshInflight' = refreshInflight - 1
  /\ location' = [location EXCEPT !.error = Some(ErrorRefreshing)]
  /\ lastStep' = "failed"
  /\ UNCHANGED << hookPc, osPermission, refreshCalls, hookIssued, lastFix, everFix >>
  /\ UNCHANGED << appVars, relayVars, detailVars, distanceVars >>

NextHook ==
  \/ HookMount
  \/ \E status \in {"granted", "denied"} : HookPermissionResolved(status)
  \/ HookPermissionRejected
  \/ \E coords \in HookPositions : HookPositionResolved(coords)
  \/ HookPositionRejected
  \/ RefreshLocation
  \/ \E coords \in HookPositions : RefreshResolved(coords)
  \/ RefreshRejected

\* the hook alone
SpecHook == Init /\ [][NextHook]_vars

(* ------------------------------------------------------------------ *)
(* The operations started at mount, side by side                      *)
(* ------------------------------------------------------------------ *)

\* one response of each kind
StartResponses ==
  { Response(k, <<>>) :
      k \in {"fetch_rejected", "json_rejected", "null", "relay_error",
             "no_features", "features_null"} }
  \cup { Response("features_array", <<LotA>>) }

NextStart ==
  \/ NextHook
  \/ GetLocationStart
  \/ \E status \in {"granted", "denied"} : PermissionResolved(status)
  \/ PermissionRejected
  \/ \E coords \in Positions : PositionResolved(coords)
  \/ PositionRejected
  \/ FetchStart
  \/ \E data \in StartResponses : FetchCompleted(data)

\* the hook, getLocation and fetchParkingData, without the screen's inputs
SpecStart == Init /\ [][NextStart]_vars

(* ------------------------------------------------------------------ *)
(* The relay: app.get('/proxy') (geoLocation.tsx 81-99)               *)
(* ------------------------------------------------------------------ *)

\* error.message: a text and, for the relay's own HTTP error, the status
ErrorMessage(text, status) == [text |-> text, status |-> status]

NoMessage == ErrorMessage("", 0)

\* a decoded JSON value: a value of the screen's  data  and, for the
\* relay's error object, its error string
JsonValue(kind, features, error) == [kind |-> kind, features |-> features, error |-> error]

\* { error: error.message }
ErrorObject(message) == JsonValue("relay_error", <<>>, message)

\* A body text: whether it is JSON, the value it spells and how it spells it
\* ("compact": as JSON.stringify writes it; "spaced": the same value with
\* other white space or number spelling)
BodyText(json, value, spelling) == [json |-> json, value |-> value, spelling |-> spelling]

\* a body that is not JSON (an HTML error page)
NotJson == BodyText(FALSE, JsonValue("none", <<>>, NoMessage), "html")

\* JSON.stringify: the one spelling it writes
JSONstringify(value) == BodyText(TRUE, value, "compact")

\* response.json() resolves for a JSON text, with the value it spells
JSONparses(text) == text.json
JSONparse(text) == text.value

UpstreamValues ==
  { JsonValue("features_array", <<LotA>>, NoMessage),
    JsonValue("no_features", <<>>, NoMessage) }

UpstreamBodies ==
  { BodyText(TRUE, v, sp) : v \in UpstreamValues, sp \in {"compact", "spaced"} }
  \cup { NotJson }

\* what  await fetch(apiUrl)  resolves with
UpstreamResponse(status, body) == [kind |-> "response", status |-> status, body |-> body]

UpstreamResponses ==
  { UpstreamResponse(st, b) : st \in {200, 404, 503}, b \in UpstreamBodies }

\* the messages fetch rejects with
NetworkMessages == { ErrorMessage("request to upstream failed", 0) }

UpstreamRejection(message) ==
  [kind |-> "rejected", status |-> 0, body |-> NotJson, message |-> message]

\* a response.ok that is true for every status
ResponseOkAlways(resp) == TRUE

\* response.ok
ResponseOk(resp) == resp.status >= 200 /\ resp.status <= 299

\* new Error(`HTTP error! status: ${response.status}`).message
HttpErrorMessage(resp) == ErrorMessage("HTTP error! status: ", resp.status)

\* the SyntaxError of response.json()
SyntaxErrorMessage == ErrorMessage("Unexpected token < in JSON", 0)

\* a success branch that forwards data.features instead of data
RelaySuccessFeaturesOnly(data) ==
  [status |-> 200, body |-> JSONstringify([data EXCEPT !.kind = "bare_array"])]

\* res.json(data)
RelaySuccess(data) == [status |-> 200, body |-> JSONstringify(data)]

\* res.status(500).json({ error: error.message })
RelayFailure(message) == [status |-> 500, body |-> JSONstringify(ErrorObject(message))]

\* a request: where its handler stands, what the upstream call settled with
\* (Null before) and the responses sent for it
RelayRequestState(pc, upstream, sent) == [pc |-> pc, upstream |-> upstream, sent |-> sent]

\* a GET /proxy arrives and the handler runs to  await fetch(apiUrl)
RelayRequest ==
  /\ Len(requests) < MaxRequests
  /\ requests' = Append(requests, RelayRequestState("awaitFetch", Null, <<>>))
  /\ UNCHANGED << appVars, hookVars, detailVars, distanceVars >>

\* fetch rejects: the catch block
RelayFetchRejected(i, message) ==
  /\ i \in DOMAIN requests
  /\ requests[i].pc = "awaitFetch"
  /\ requests' = [requests EXCEPT ![i] =
       RelayRequestState("done", Some(UpstreamRejection(message)),
                         Append(@.sent, RelayFailure(message)))]
  /\ UNCHANGED << appVars, hookVars, detailVars, distanceVars >>

\* fetch resolves: a status outside 2xx throws into the catch block, else
\* the handler runs on to  await response.json()
RelayFetchResolved(i, resp) ==
  /\ i \in DOMAIN requests
  /\ requests[i].pc = "awaitFetch"
  /\ requests' = [requests EXCEPT ![i] =
       IF ~ResponseOk(resp)
       THEN RelayRequestState("done", Some(resp),
                              Append(@.sent, RelayFailure(HttpErrorMessage(resp))))
       ELSE RelayRequestState("awaitJson", Some(resp), @.sent)]
  /\ UNCHANGED << appVars, hookVars, detailVars, distanceVars >>

\* a handler without the catch block around response.json(): a body that
\* does not decode ends the handler with nothing sent
RelayJsonSettledNoCatch(i) ==
  /\ i \in DOMAIN requests
  /\ requests[i].pc = "awaitJson"
  /\ LET body == requests[i].upstream[1].body
     IN  requests' = [requests EXCEPT ![i] =
           RelayRequestState("done", @.upstream,
             IF JSONparses(body)
             THEN Append(@.sent, RelaySuccess(JSONparse(body)))
             ELSE @.sent)]
  /\ UNCHANGED << appVars, hookVars, detailVars, distanceVars >>

\* response.json() settles: res.json(data), or the catch block when the
\* body does not decode
RelayJsonSettled(i) ==
  /\ i \in DOMAIN requests
  /\ requests[i].pc = "awaitJson"
  /\ LET body == requests[i].upstream[1].body
     IN  requests' = [requests EXCEPT ![i] =
           RelayRequestState("done", @.upstream,
             IF JSONparses(body)
             THEN Append(@.sent, RelaySuccess(JSONparse(body)))
             ELSE Append(@.sent, RelayFailure(SyntaxErrorMessage)))]
  /\ UNCHANGED << appVars, hookVars, detailVars, distanceVars >>

NextRelay ==
  \/ RelayRequest
  \/ \E i \in 1..MaxRequests, message \in NetworkMessages : RelayFetchRejected(i, message)
  \/ \E i \in 1..MaxRequests, resp \in UpstreamResponses : RelayFetchResolved(i, resp)
  \/ \E i \in 1..MaxRequests : RelayJsonSettled(i)

\* the relay alone
SpecRelay == Init /\ [][NextRelay]_vars

(* ------------------------------------------------------------------ *)
(* Properties of the fetch completion handler                         *)
(* ------------------------------------------------------------------ *)

\* geometry.coordinates[0] exists and has at least one point
OuterRingNonEmpty(feature) ==
  /\ feature.geometry.present
  /\ feature.geometry.hasCoordinates
  /\ feature.geometry.coordinates # <<>>
  /\ Head(feature.geometry.coordinates) # <<>>

\* the fetch handler has run on a response holding a features array
StoredAResponse == fetchPc = "done" /\ response.kind = "features_array"

\* the fetch handler has raised its error alert
FetchAlerted == alerts \cap FetchAlerts # {}

\* C1: after the fetch completion handler has stored a response, every
\* feature of the stored list has a non-empty outer ring.
C1_StoredFeaturesHaveOuterRing ==
  StoredAResponse =>
    \A i \in DOMAIN parkingData : OuterRingNonEmpty(parkingData[i])

\* C2: a response that mixes in a malformed feature has its valid features
\* stored, raises no fetch alert, and renders without failing.
C2_MalformedFeatureDroppedSilently ==
  ( /\ StoredAResponse
    /\ \E i \in DOMAIN response.features : ~OuterRingNonEmpty(response.features[i]) )
  =>
    /\ SelectSeq(parkingData, OuterRingNonEmpty)
         = SelectSeq(response.features, OuterRingNonEmpty)
    /\ ~FetchAlerted
    /\ view # "crashed"

\* the features the running handler accepts: every feature in App.tsx, the
\* features with a non-empty outer ring in part_004
Accepted(feature) == variant = "App" \/ OuterRingNonEmpty(feature)

\* C3: the stored list is the upstream features array restricted to the
\* accepted features, each occurrence kept, in upstream order.
C3_StoredIsAcceptedSubsequence ==
  StoredAResponse => parkingData = SelectSeq(response.features, Accepted)

\* two equal upstream features were received and both are stored
C3_Witness ==
  /\ StoredAResponse
  /\ Len(response.features) = 2
  /\ response.features[1] = response.features[2]
  /\ Len(parkingData) = 2
  /\ parkingData[1] = parkingData[2]

Contains(hay, needle) ==
  \E k \in 0..(Len(hay) - Len(needle)) : SubSeq(hay, k + 1, k + Len(needle)) = needle

\* the feature occurs in the sequence
OccursIn(feature, list) == \E j \in DOMAIN list : list[j] = feature

\* the search term occurs in the lower-cased name or the lower-cased tyyppi
TextClause(feature, term) ==
  \/ Contains(toLowerCase(feature.properties.name), toLowerCase(term))
  \/ Contains(toLowerCase(feature.properties.tyyppi), toLowerCase(term))

\* the switches that are on find their flag set
ToggleClause(feature) ==
  /\ (filters.electric => feature.properties.sahkoauto)
  /\ (filters.disability => feature.properties.inva)

\* C5: a feature of the list is in the filtered list iff both toggle
\* conditions hold and the term occurs in the name or in the tyyppi.
C5_FilterPassesIff ==
  \A i \in DOMAIN parkingData :
    OccursIn(parkingData[i], filteredParkingData)
      <=> (ToggleClause(parkingData[i]) /\ TextClause(parkingData[i], searchTerm))

\* with the electric switch on, a feature passes through its tyyppi alone
\* while another feature of the list is filtered out
C5_Witness ==
  /\ filters.electric
  /\ searchTerm = <<"p">>
  /\ OccursIn(LotA, filteredParkingData)
  /\ Len(filteredParkingData) < Len(parkingData)

\* a is b with some elements removed
RECURSIVE IsSubsequence(_, _)
IsSubsequence(a, b) ==
  IF a = <<>> THEN TRUE
  ELSE IF b = <<>> THEN FALSE
  ELSE IF Head(a) = Head(b) THEN IsSubsequence(Tail(a), Tail(b))
  ELSE IsSubsequence(a, Tail(b))

\* C6: the filter output is a subsequence of the feature list.
C6_FilterOutputIsSubsequence == IsSubsequence(filteredParkingData, parkingData)

\* two different features both pass a non-empty search term
C6_Witness ==
  /\ searchTerm # <<>>
  /\ Len(filteredParkingData) = 2
  /\ filteredParkingData[1] # filteredParkingData[2]

\* C7: with a switch on, every feature of the output has that flag, and a
\* list whose only feature has inva false gives an empty output when the
\* disability switch is on.
C7_TogglesRestrictOutput ==
  /\ filters.electric =>
       \A j \in DOMAIN filteredParkingData : filteredParkingData[j].properties.sahkoauto
  /\ filters.disability =>
       \A j \in DOMAIN filteredParkingData : filteredParkingData[j].properties.inva
  /\ (filters.disability /\ Len(parkingData) = 1 /\ ~parkingData[1].properties.inva)
       => filteredParkingData = <<>>

\* the one feature of the list has inva false and the disability switch is on
C7_Witness ==
  /\ parkingData = <<LotA>>
  /\ filters.disability
  /\ filteredParkingData = <<>>

\* C8: with an empty search term exactly the features the switches allow
\* pass, and with both switches off too the output is the whole list.
C8_EmptyTermPassesText ==
  searchTerm = <<>> =>
    /\ filteredParkingData = SelectSeq(parkingData, ToggleClause)
    /\ (~filters.electric /\ ~filters.disability) => filteredParkingData = parkingData

\* the empty term with a switch on: one feature shown, one held back
C8_Witness ==
  /\ searchTerm = <<>>
  /\ filters.electric
  /\ Len(parkingData) = 2
  /\ Len(filteredParkingData) = 1

\* C9: filtering the filter output again with the same criteria returns it.
C9_FilterIdempotent ==
  FilterParkingData(filteredParkingData, searchTerm, filters) = filteredParkingData

\* the criteria kept one feature of two
C9_Witness ==
  /\ searchTerm # <<>>
  /\ Len(parkingData) = 2
  /\ Len(filteredParkingData) = 1

\* String.prototype.toUpperCase on one character: a string, because U+00DF
\* has the two-character upper-case form "SS"
ToUpperChar(c) ==
  CASE c = "l" -> <<"L">>
    [] c = "a" -> <<"A">>
    [] c = "s" -> <<"S">>
    [] c = "p" -> <<"P">>
    [] c = "o" -> <<"O">>
    [] c = "t" -> <<"T">>
    [] c = SharpS -> <<"S", "S">>
    [] OTHER -> <<c>>

\* the strings got from s by putting characters into their lower-case or
\* upper-case form
RECURSIVE CaseVariants(_)
CaseVariants(s) ==
  IF s = <<>> THEN { <<>> }
  ELSE { h \o t : h \in { <<Head(s)>>, <<ToLowerChar(Head(s))>>, ToUpperChar(Head(s)) },
                  t \in CaseVariants(Tail(s)) }

\* the same, changing only characters whose other case is one character
RECURSIVE OneToOneCaseVariants(_)
OneToOneCaseVariants(s) ==
  IF s = <<>> THEN { <<>> }
  ELSE { h \o t : h \in { x \in { <<Head(s)>>, <<ToLowerChar(Head(s))>>, ToUpperChar(Head(s)) } :
                            Len(x) = 1 },
                  t \in OneToOneCaseVariants(Tail(s)) }

\* the feature with another name and tyyppi
Renamed(feature, name, tyyppi) ==
  [feature EXCEPT !.properties.name = name, !.properties.tyyppi = tyyppi]

FallbackRegion == LocationState([latitude |-> 6017, longitude |-> 2494])

\* C11: while no permission request and no position query has resolved, the
\* location state holds the fallback coordinate, in the hook and on the
\* screen.
C11_FallbackBeforeFirstResolution ==
  /\ lastStep = "none" => location.coordinates = Helsinki
  /\ locPc \in {"start", "awaitPermission"} => currentLocation = Some(FallbackRegion)

\* C12: a mount that ends in a denied permission or a failed query leaves
\* the fallback coordinate with an error flag, in the hook and on the
\* screen (whose location is then not null).
C12_MountFailureGivesFallbackWithError ==
  [][ /\ (hookPc # "done" /\ hookPc' = "done" /\ lastStep' = "failed")
         => ( /\ location'.loaded
              /\ location'.coordinates = Helsinki
              /\ location'.error # Null )
      /\ (locPc # "done" /\ locPc' = "done" /\ alerts' # alerts)
         => currentLocation' = Some(FallbackRegion)
    ]_vars

\* C13: once the permission is denied and the fetch has completed, the
\* screen has left the loading view and shows the map at the fallback.
C13_DeniedStillRendersMap ==
  (AlertPermissionDenied \in alerts /\ fetchPc = "done")
    => (view = "map" /\ currentLocation = Some(FallbackRegion))

\* a position query of refreshLocation has just settled
RefreshSettles == refreshInflight' = refreshInflight - 1

\* C14: a failed refresh keeps the coordinate and the loaded flag and sets
\* the error.
C14_RefreshFailureKeepsCoordinate ==
  [][ (RefreshSettles /\ lastStep' = "failed")
        => ( /\ location'.coordinates = location.coordinates
             /\ location'.loaded = location.loaded
             /\ location'.error = Some(ErrorRefreshing) )
    ]_vars

\* a refresh failed after a fix: the fix is still held, with the error
C14_Witness ==
  /\ lastStep = "failed"
  /\ location.error = Some(ErrorRefreshing)
  /\ location.coordinates # Helsinki
  /\ location.loaded

\* C15: once a position query has succeeded the held coordinate is not the
\* fallback coordinate again.
C15_FixNeverOverwrittenByFallback ==
  everFix => location.coordinates # Helsinki

\* C16: a successful refresh sets the coordinate to the latitude and
\* longitude its query returned, and loaded to true.
C16_RefreshSuccessSetsCoordinate ==
  [][ (RefreshSettles /\ lastStep' = "ok")
        => ( /\ lastFix' # Null
             /\ location'.coordinates
                  = [lat |-> lastFix'[1].latitude, lng |-> lastFix'[1].longitude]
             /\ location'.loaded )
    ]_vars

\* a refresh has succeeded while the mount's own query is still pending
C16_Witness ==
  /\ hookPc = "awaitPosition"
  /\ everFix
  /\ lastStep = "ok"
  /\ location.loaded
  /\ location.coordinates # Helsinki

\* C17: one permission request and one fetch at most, and no more position
\* queries than the mount's one plus the calls of refreshLocation.
C17_NothingIssuedTwice ==
  /\ hookIssued.permission <= 1
  /\ hookIssued.position <= 1 + refreshCalls
  /\ issued.permission <= 1
  /\ issued.position <= 1
  /\ issued.fetch <= 1

\* the mount query, a refresh and the fetch have all failed
C17_Witness ==
  /\ hookPc = "done"
  /\ refreshCalls >= 1
  /\ refreshInflight = 0
  /\ location.error = Some(ErrorRefreshing)
  /\ location.coordinates = Helsinki
  /\ AlertLocationFailed \in alerts
  /\ FetchAlerted
  /\ hookIssued.position = 1 + refreshCalls

(* ------------------------------------------------------------------ *)
(* Properties of the relay                                            *)
(* ------------------------------------------------------------------ *)

\* the handler of request i has finished after an upstream 2xx response
Relayed2xx(i) ==
  /\ requests[i].pc = "done"
  /\ requests[i].upstream[1].kind = "response"
  /\ requests[i].upstream[1].status \in 200..299

\* the handler of request i has finished after a rejected upstream call or
\* an upstream status outside 2xx
RelayedFailure(i) ==
  /\ requests[i].pc = "done"
  /\ \/ requests[i].upstream[1].kind = "rejected"
     \/ requests[i].upstream[1].status \notin 200..299

FailureMessage(upstream) ==
  IF upstream.kind = "rejected" THEN upstream.message
  ELSE ErrorMessage("HTTP error! status: ", upstream.status)

\* C19: after a rejected upstream call or a status outside 2xx the relay has
\* sent status 500 with an error object holding the failure message, and
\* not the upstream body.
C19_FailureGives500WithMessage ==
  \A i \in DOMAIN requests :
    RelayedFailure(i) =>
      /\ Len(requests[i].sent) = 1
      /\ requests[i].sent[1].status = 500
      /\ requests[i].sent[1].body.json
      /\ requests[i].sent[1].body.value.kind = "relay_error"
      /\ requests[i].sent[1].body.value.error = FailureMessage(requests[i].upstream[1])
      /\ requests[i].sent[1].body.value # requests[i].upstream[1].body.value

\* an upstream 503 with a JSON body was answered with the 500 error object
C19_Witness ==
  \E i \in DOMAIN requests :
    /\ requests[i].pc = "done"
    /\ requests[i].upstream[1].kind = "response"
    /\ requests[i].upstream[1].status = 503
    /\ requests[i].upstream[1].body.json
    /\ requests[i].sent[1].status = 500
    /\ requests[i].sent[1].body.value.error.status = 503

(* ------------------------------------------------------------------ *)
(* Properties of a failed fetch                                       *)
(* ------------------------------------------------------------------ *)

\* the fetch handler finishes on something other than a features array
FetchFails ==
  /\ fetchPc = "inflight"
  /\ fetchPc' = "done"
  /\ response'.kind # "features_array"

\* C20: a failed fetch raises an alert and leaves the feature list as it was.
C20_FailedFetchAlertsAndKeepsList ==
  [][ FetchFails =>
        ( /\ alerts' \cap FetchAlerts # {}
          /\ alerts' # alerts
          /\ parkingData' = parkingData ) ]_vars

\* the relay's error body arrived: an alert, and the list still empty
C20_Witness ==
  /\ fetchPc = "done"
  /\ response.kind = "relay_error"
  /\ FetchAlerted
  /\ parkingData = <<>>

(* ------------------------------------------------------------------ *)
(* Properties of the two operations started at mount                  *)
(* ------------------------------------------------------------------ *)

\* this step ends getLocation
LocationCompletes == locPc # "done" /\ locPc' = "done"

\* this step ends fetchParkingData
FetchCompletes == fetchPc # "done" /\ fetchPc' = "done"

\* the alerts of getLocation
LocationAlerts == {AlertPermissionDenied, AlertLocationFailed}

\* the feature list a completed fetch leaves, from what it delivered
ListAfterFetch ==
  IF response.kind = "features_array" THEN StoredFeatures(variant, response) ELSE <<>>

\* C21: the fetch completion leaves the location state as it was, every
\* step of getLocation leaves the feature list and the fetch as they were,
\* and once both have completed, in whichever order, the feature list is
\* what the response alone gives, the location is Null or the fix, and the
\* render is that of these two.
C21_LocationAndFetchIndependent ==
  [][ /\ FetchCompletes =>
           ( /\ currentLocation' = currentLocation
             /\ locPc' = locPc
             /\ alerts' \cap LocationAlerts = alerts \cap LocationAlerts )
      /\ locPc' # locPc =>
           ( /\ parkingData' = parkingData
             /\ fetchPc' = fetchPc
             /\ response' = response
             /\ alerts' \cap FetchAlerts = alerts \cap FetchAlerts )
      /\ ((LocationCompletes \/ FetchCompletes) /\ locPc' = "done" /\ fetchPc' = "done") =>
           ( /\ parkingData' = ListAfterFetch'
             /\ (alerts' \cap FetchAlerts = {}) = (response'.kind = "features_array")
             /\ (alerts' \cap LocationAlerts = {}) = (currentLocation' # Null)
             /\ view' = RenderView(parkingData', currentLocation',
                                   FilterParkingData(parkingData', searchTerm', filters')) )
    ]_vars

\* the fetch stored a feature although the permission was denied
C21_Witness ==
  /\ locPc = "done"
  /\ fetchPc = "done"
  /\ AlertPermissionDenied \in alerts
  /\ parkingData = <<LotA>>
  /\ alerts \cap FetchAlerts = {}

\* C22: once both operations of the mount have ended, whatever errors they
\* ended in, the screen shows the map view with the search box and the
\* toggles.
C22_ErrorsLeaveScreenInteractive ==
  (locPc = "done" /\ fetchPc = "done") => view = "map"

(* ------------------------------------------------------------------ *)
(* Properties of the markers on display                               *)
(* ------------------------------------------------------------------ *)

\* <Marker coordinate={{latitude: lat, longitude: lng}}> of the marker loop
MarkerOf(feature) ==
  [coordinate |-> [latitude  |-> feature.geometry.coordinates[1][1][2],
                   longitude |-> feature.geometry.coordinates[1][1][1]],
   feature |-> feature]

\* the markers of a rendered map
MarkersOf(filtered) == [i \in DOMAIN filtered |-> MarkerOf(filtered[i])]

\* the markers on display after the last render
DisplayedMarkers == IF view = "map" THEN MarkersOf(filteredParkingData) ELSE <<>>

C27_FlagsFollowLatestStep ==
  /\ (hookPc = "done" \/ refreshCalls > refreshInflight) => location.loaded
  /\ lastStep # "none" => ((location.error # Null) = (lastStep = "failed"))

\* this step settles a position query of the mount effect or of
\* refreshLocation with a position
QueryResolves ==
  /\ lastStep' = "ok"
  /\ \/ (hookPc = "awaitPosition" /\ hookPc' = "done")
     \/ refreshInflight' = refreshInflight - 1

\* this step ends the mount effect in a denial or its catch block
MountFails == hookPc # "done" /\ hookPc' = "done" /\ lastStep' = "failed"

\* this step settles a position query of refreshLocation in its catch block
RefreshFails == refreshInflight' = refreshInflight - 1 /\ lastStep' = "failed"

\* C27 amended: loaded never returns to false and is true once the mount
\* effect has ended or a position query has resolved; a resolved position
\* query clears the error, a failed mount or refresh sets it, and every
\* other step (a granted permission among them) leaves the state as it was,
\* so that a refresh failing before the mount has ended leaves loaded false.
C27_FlagsFollowLatestWrite ==
  [][ /\ location.loaded => location'.loaded
      /\ (hookPc' = "done" \/ everFix') => location'.loaded
      /\ QueryResolves => (location'.error = Null /\ location'.loaded)
      /\ (MountFails \/ RefreshFails) => location'.error # Null
      /\ RefreshFails => location'.loaded = location.loaded
      /\ ~(QueryResolves \/ MountFails \/ RefreshFails) => location' = location
    ]_vars

\* a refresh failed before the mount ended and the permission was granted
\* afterwards: the error is set, loaded is false, the latest step succeeded
C27_Witness ==
  /\ hookPc = "awaitPosition"
  /\ lastStep = "ok"
  /\ ~location.loaded
  /\ location.error = Some(ErrorRefreshing)

(* ------------------------------------------------------------------ *)
(* Properties of the relay's responses                                *)
(* ------------------------------------------------------------------ *)

\* C29: a request whose handler has ended has been sent exactly one
\* response and a request whose handler is waiting none; after an upstream
\* 2xx the one response is the forwarded value when the body decodes and the
\* 500 error object when it does not.
C29_ExactlyOneResponse ==
  \A i \in DOMAIN requests :
    /\ Len(requests[i].sent) = (IF requests[i].pc = "done" THEN 1 ELSE 0)
    /\ Relayed2xx(i) =>
         /\ requests[i].upstream[1].body.json =>
              ( /\ requests[i].sent[1].status = 200
                /\ requests[i].sent[1].body.value.kind # "relay_error" )
         /\ ~requests[i].upstream[1].body.json =>
              ( /\ requests[i].sent[1].status = 500
                /\ requests[i].sent[1].body.value = ErrorObject(SyntaxErrorMessage) )

\* two requests ended, one after a 200 with a body that is not JSON, one
\* after a 200 with a JSON body
C29_Witness ==
  /\ Len(requests) = 2
  /\ \E i, j \in DOMAIN requests :
       /\ Relayed2xx(i)
       /\ ~requests[i].upstream[1].body.json
       /\ requests[i].sent = << RelayFailure(SyntaxErrorMessage) >>
       /\ Relayed2xx(j)
       /\ requests[j].upstream[1].body.json
       /\ Len(requests[j].sent) = 1

(* ------------------------------------------------------------------ *)
(* Properties of the feature list's writers and of the detail view    *)
(* ------------------------------------------------------------------ *)

\* C24: the feature list changes only in the step that ends the fetch with
\* a features array; every other step (the search text, a toggle, a marker
\* press, a close of the detail view, every step of getLocation) leaves it
\* as it was.
C24_FeatureListHasSingleWriter ==
  [][ parkingData' # parkingData =>
        (FetchCompletes /\ response'.kind = "features_array") ]_vars

\* the list was stored, then a marker was pressed, the view closed and the
\* criteria changed, and the list is still the stored one
C24_Witness ==
  /\ parkingData # <<>>
  /\ parkingData = StoredFeatures(variant, response)
  /\ selectedParking # Null
  /\ ~modalVisible
  /\ searchTerm # <<>>
  /\ filters.disability

\* C28: whenever the modal is visible a selected feature is set, and a step
\* that hides the modal leaves the selection as it was.
C28_VisibleModalHasSelection ==
  [][ /\ modalVisible' => selectedParking' # Null
      /\ (modalVisible /\ ~modalVisible') =>
           (selectedParking' = selectedParking /\ selectedParking' # Null) ]_vars

\* the modal was closed and the selection is kept
C28_Witness ==
  /\ ~modalVisible
  /\ selectedParking # Null
  /\ view = "map"

(* ------------------------------------------------------------------ *)
(* Properties of calculateDistance                                    *)
(* ------------------------------------------------------------------ *)

\* the latest call was given the same point twice
SamePointTwice ==
  /\ distanceCall # Null
  /\ distanceCall[1].lat1 = distanceCall[1].lat2
  /\ distanceCall[1].lon1 = distanceCall[1].lon2

\* C25 as stated: for the same point twice the function returns the number
\* zero.
C25_IdenticalPointsReturnZero ==
  SamePointTwice => distanceCall[1].returned = NumberValue(0)

\* C25 amended: for the same point twice the function returns the string
\* "0.00 km": the distance zero, rounded to two decimals, with the suffix.
C25_IdenticalPointsReturnZeroKm ==
  SamePointTwice =>
    /\ distanceCall[1].returned.type = "string"
    /\ distanceCall[1].returned.hundredths = 0
    /\ distanceCall[1].returned.suffix = " km"

\* the function was called with a point of the southern hemisphere twice
C25_Witness ==
  /\ SamePointTwice
  /\ distanceCall[1].lat1 < 0
  /\ distanceCall[1].returned = ToFixed2Km(0)

\* C26: what the function returned is what it returns with the two points
\* exchanged.
C26_DistanceSymmetric ==
  distanceCall # Null =>
    distanceCall[1].returned =
      calculateDistance(distanceCall[1].lat2, distanceCall[1].lon2,
                        distanceCall[1].lat1, distanceCall[1].lon1)

\* the function was called with two points of different latitude and
\* longitude, far apart
C26_Witness ==
  /\ distanceCall # Null
  /\ distanceCall[1].lat1 > distanceCall[1].lat2
  /\ distanceCall[1].lon1 < distanceCall[1].lon2
  /\ distanceCall[1].returned.hundredths > 100000
  /\ distanceCall[1].returned.suffix = " km"

====
